---- MODULE Spec2Model ----
(***************************************************************************)
(* A model of cmd/debiman/render.go: renderAll, the incremental render     *)
(* pass over the serving directory (inventory scan, staleness test,        *)
(* hand-off of render jobs to a pool of worker goroutines over an          *)
(* unbuffered channel, per-directory index rebuild, join, per-suite        *)
(* listing), and writeAtomically, the temp-file-and-rename writer.         *)
(*                                                                         *)
(* File names are sequences of their dot-separated parts: "a.1.gz" would   *)
(* be <<"a", "1", "gz">>.  Modification times are naturals; 0 is Go's zero *)
(* time.Time, which is also what a missing index yields (render.go:163).   *)
(* The clock `now` never runs backwards and every file on disk carries a   *)
(* modification time of at most `now`.                                     *)
(***************************************************************************)
EXTENDS Integers, Sequences, FiniteSets, TLC

\* ------------------------------------------------------------- bounds ----
\* Number of worker goroutines started by renderAll (30 in render.go:125).
NumWorkers == 2
\* Largest clock value.
MaxTime == 3
\* Number of successive renderAll passes.
MaxRuns == 2
\* Number of files touched between two passes.
MaxTouches == 1

Workers == 1..NumWorkers

\* --------------------------------------------------- the serving tree ----
\* <servingDir>/<suite>/<binary package>/<files>
P1 == <<"s1", "p1">>
P2 == <<"s1", "p2">>
P9 == <<"old", "p9">>

\* Every directory below the root, and the package directories below each.
SuiteDirs == {"s1", "s2", "old"}

PkgDirs == {P1, P2, P9}

BinsOf(suite) == {d \in PkgDirs : d[1] = suite}

\* gv.suites: the suites the global view knows.
gvSuites == {"s1", "s2"}

A_GZ == <<"a", "gz">>
A_HTML == <<"a", "html", "gz">>
B_GZ == <<"b", "gz">>
B_HTML == <<"b", "html", "gz">>
C_GZ == <<"c", "gz">>
C_HTML == <<"c", "html", "gz">>
N_TXT == <<"n", "txt">>
Z_GZ == <<"z", "gz">>
INDEX == <<"index", "html", "gz">>

\* The names a package directory may hold, in the order ioutil.ReadDir
\* returns them (sorted by file name).
NameOrder(d) ==
  IF d = P1 THEN <<A_GZ, A_HTML, B_GZ, B_HTML, INDEX>>
  ELSE IF d = P2 THEN <<C_GZ, C_HTML, INDEX, N_TXT>>
  ELSE <<Z_GZ>>

Range(s) == {s[i] : i \in DOMAIN s}

NamesOf(d) == Range(NameOrder(d))

\* ------------------------------------------------------ string helpers ----
\* strings.HasSuffix(name, ".gz") / strings.HasSuffix(name, ".html.gz")
HasSuffixGz(name) == Len(name) >= 2 /\ name[Len(name)] = "gz"

HasSuffixHtmlGz(name) ==
  Len(name) >= 3 /\ name[Len(name)] = "gz" /\ name[Len(name) - 1] = "html"

\* strings.TrimSuffix(name, ".gz")
TrimSuffixGz(name) ==
  IF HasSuffixGz(name) THEN SubSeq(name, 1, Len(name) - 1) ELSE name

\* n := strings.TrimSuffix(f.Name(), ".gz") + ".html.gz"
HtmlName(name) == TrimSuffixGz(name) \o <<"html", "gz">>

\* filepath.Base(dir)
Base(d) == d[Len(d)]

\* ---------------------------------------------------------- variables ----
VARIABLES
  now,            \* the clock
  tree,           \* tree[d][name]: modification time of the file, 0 = absent
  symlinks,       \* the <<d, name>> that are symbolic links
  unparsable,     \* the <<d, name>> manpage.FromServingPath rejects
  onlyRender,     \* the -only_render flag, as the set of names it lists
  ppc,            \* where renderAll is
  contents,       \* contents[dir]: the []os.FileInfo gathered by the scan
  binsBySuite,    \* the suites whose listing will be written
  todo,           \* directories of contents not yet ranged over
  cur,            \* dir of the current iteration
  idx,            \* position in files of the current iteration
  indexNeedsUpdate,
  manpageByName,  \* names entered in the index mapping of cur
  job,            \* the renderJob offered on renderChan by the select
  chanClosed,     \* close(renderChan) has run
  wpc,            \* where each worker goroutine is
  wjob,           \* the renderJob each worker holds
  egErr,          \* errgroup: the error Wait will return
  ctxDone,        \* errgroup: ctx is cancelled
  ret,            \* what renderAll returned
  \* history of the current pass
  runs,           \* passes started so far
  errlog,         \* every error raised, in the order raised
  emitted,        \* jobs handed to a worker
  dropped,        \* jobs abandoned on <-ctx.Done()
  indexed,        \* directories renderPkgindex was called for
  listed,         \* suites renderContents was called for
  writes,         \* paths written
  tree0,          \* tree when the pass started
  touched,        \* files touched since the previous pass returned
  clean,          \* the tree was up to date when the previous pass returned
  \* writeAtomically
  wa

vars == <<now, tree, symlinks, unparsable, onlyRender, ppc, contents,
          binsBySuite, todo, cur, idx, indexNeedsUpdate, manpageByName, job,
          chanClosed, wpc, wjob, egErr, ctxDone, ret, runs, errlog, emitted,
          dropped, indexed, listed, writes, tree0, touched, clean, wa>>

\* ------------------------------------------------------------- values ----
NoJob == [dir |-> <<>>, src |-> <<>>, dest |-> <<>>]

\* An error value: the call that failed and the path it was working on.
Err(op, path) == [op |-> op, path |-> path]

Nil == Err("nil", <<>>)

\* renderAll has not returned.
Running == Err("running", <<>>)

\* time.Time.After / time.Time.Before
After(t, u) == t > u

Before(t, u) == t < u

\* ioutil.ReadDir(dir): the entries that exist, sorted by name, as FileInfos.
ReadDir(t, d) ==
  LET ns == SelectSeq(NameOrder(d), LAMBDA n : t[d][n] # 0)
  IN  [i \in 1..Len(ns) |->
         [name |-> ns[i], mtime |-> t[d][ns[i]],
          symlink |-> (<<d, ns[i]>> \in symlinks)]]

\* fileByName[n] and its ok flag
HasFile(files, n) == \E i \in DOMAIN files : files[i].name = n

FileOf(files, n) == files[CHOOSE i \in DOMAIN files : files[i].name = n]

\* Mutant: the index's modification time is never read.
IndexModTimeZero(files) == 0

\* indexModTime: the index's mtime, or the zero time without an index.
IndexModTime(files) ==
  IF HasFile(files, INDEX) THEN FileOf(files, INDEX).mtime ELSE 0

\* The suffix test of the entry loop: not a compressed source document.
NotSource(f) == ~HasSuffixGz(f.name) \/ HasSuffixHtmlGz(f.name)

\* Mutant: the file mode is never looked at.
IsSymlinkNever(f) == FALSE

\* f.Mode()&os.ModeSymlink != 0
IsSymlink(f) == f.symlink

\* Mutant: the comparison with the index is turned around.
MarksIndexBefore(d, f, files) == Before(f.mtime, IndexModTime(files))

\* Mutant: an entry whose serving path does not parse leaves the flag alone.
MarksIndexParsed(d, f, files) ==
  After(f.mtime, IndexModTime(files)) /\ <<d, f.name>> \notin unparsable

\* Mutant: an entry as old as the index marks it too.
MarksIndexNotBefore(d, f, files) == ~Before(f.mtime, IndexModTime(files))

\* f.ModTime().After(indexModTime), evaluated before the serving path is parsed.
MarksIndex(d, f, files) == After(f.mtime, IndexModTime(files))

\* Mutant: the error of manpage.FromServingPath is not looked at.
ParseFailsNever(d, f) == FALSE

\* manpage.FromServingPath(*servingDir, full) returned an error.
ParseFails(d, f) == <<d, f.name>> \in unparsable

\* Mutant: only a missing page is rendered, modification times are ignored.
NeedsRenderMissingOnly(files, f) == ~HasFile(files, HtmlName(f.name))

\* Mutant: a page as old as its source is rendered again.
NeedsRenderNotAfter(files, f) ==
  LET n == HtmlName(f.name)
  IN  ~HasFile(files, n) \/ ~After(FileOf(files, n).mtime, f.mtime)

\* !ok || html.ModTime().Before(f.ModTime())
NeedsRender(files, f) ==
  LET n == HtmlName(f.name)
  IN  ~HasFile(files, n) \/ Before(FileOf(files, n).mtime, f.mtime)

\* whitelist != nil && !whitelist[filepath.Base(dir)]
WhitelistSkips(d) == onlyRender # <<>> /\ Base(d) \notin Range(onlyRender)

\* The directories the inventory scan lists: the package directories of the
\* suite directories that gv.suites knows.
ScannedDirs == {d \in PkgDirs : d[1] \in gvSuites}

MakeJob(d, f) == [dir |-> d, src |-> f.name, dest |-> HtmlName(f.name)]

\* The collaborators of renderAll, by their contract: a call that returns nil
\* has written its destination through writeAtomically, at the current time;
\* a call that returns an error has left its destination as it was.
Rendermanpage(t, j, at) == [t EXCEPT ![j.dir][j.dest] = at]

RenderPkgindex(t, d, at) == [t EXCEPT ![d][INDEX] = at]

\* renderContents(<servingDir>/contents-<suite>.html.gz, suite, bins): the file
\* a call that returns nil has written.
RenderContents(s) == <<"contents", s>>

\* ----------------------------------------------------------- the tree ----
\* A compressed source document: ends in .gz, not in .html.gz, no symlink.
IsSourceDoc(d, n) ==
  HasSuffixGz(n) /\ ~HasSuffixHtmlGz(n) /\ <<d, n>> \notin symlinks

SourceDocs(t, d) == {n \in NamesOf(d) : t[d][n] # 0 /\ IsSourceDoc(d, n)}

\* The invariant of section 3 on one scanned directory.
DirUpToDate(t, d) ==
  \A n \in SourceDocs(t, d) :
    /\ t[d][HtmlName(n)] # 0
    /\ t[d][HtmlName(n)] >= t[d][n]
    /\ t[d][INDEX] # 0
    /\ t[d][INDEX] >= t[d][n]

UpToDate(t) == \A d \in ScannedDirs : DirUpToDate(t, d)

\* ------------------------------------------------------- initial state ----
\* What writeAtomically's state is while renderAll is the program observed.
WaIdle == [pc |-> "off"]

\* The trees a pass may find.  Every source is from time 1.  "fresh": no
\* rendered page and no index yet.  "level": every rendered page and index is
\* from time 1 too.  "staggered": every rendered page is from time 2 and every
\* index from time 3 (T1 < T2 < T3).
Profiles == {"fresh", "level", "staggered"}

InitTree(k) ==
  [d \in PkgDirs |->
     [n \in NamesOf(d) |->
        IF ~HasSuffixHtmlGz(n) THEN 1
        ELSE IF k = "fresh" THEN 0
        ELSE IF k = "level" THEN 1
        ELSE IF n = INDEX THEN 3 ELSE 2]]

InitNow(k) == IF k = "staggered" THEN 3 ELSE 1

\* b.gz is a manual page, a symbolic link or a file whose serving path does
\* not parse.
Init ==
  /\ \E k \in Profiles :
       /\ now = InitNow(k)
       /\ tree = InitTree(k)
  /\ \E k \in {"man", "symlink", "unparsable"} :
       /\ symlinks = IF k = "symlink" THEN {<<P1, B_GZ>>} ELSE {}
       /\ unparsable = IF k = "unparsable" THEN {<<P1, B_GZ>>} ELSE {}
  /\ onlyRender \in {<<>>, <<"p1">>}
  /\ ppc = "idle"
  /\ contents = <<>>
  /\ binsBySuite = <<>>
  /\ todo = {}
  /\ cur = <<>>
  /\ idx = 0
  /\ indexNeedsUpdate = FALSE
  /\ manpageByName = {}
  /\ job = NoJob
  /\ chanClosed = FALSE
  /\ wpc = [w \in Workers |-> "none"]
  /\ wjob = [w \in Workers |-> NoJob]
  /\ egErr = Nil
  /\ ctxDone = FALSE
  /\ ret = Running
  /\ runs = 0
  /\ errlog = <<>>
  /\ emitted = {}
  /\ dropped = {}
  /\ indexed = {}
  /\ listed = {}
  /\ writes = {}
  /\ tree0 = tree
  /\ touched = {}
  /\ clean = UpToDate(tree)
  /\ wa = WaIdle

\* --------------------------------------------------------- environment ----
staticVars == <<symlinks, unparsable, onlyRender, wa>>

passVars == <<ppc, contents, binsBySuite, todo, cur, idx, indexNeedsUpdate,
              manpageByName, job, chanClosed, ret>>

poolVars == <<wpc, wjob, egErr, ctxDone>>

histVars == <<runs, errlog, emitted, dropped, indexed, listed, writes, tree0,
              touched, clean>>

\* The times an event that stamps a file may happen at: the clock is read when
\* a file is written, and has not run backwards since the last such event.
Later == now..MaxTime

\* Time passes while writeAtomically runs.
Tick ==
  /\ now < MaxTime
  /\ now' = now + 1
  /\ UNCHANGED <<tree, staticVars, passVars, poolVars, histVars>>

\* Between two passes somebody updates a file that is no rendered page, at
\* time t.
Touch(d, n, t) ==
  /\ ppc = "idle"
  /\ t \in Later
  /\ now' = t
  /\ d \in ScannedDirs
  /\ Cardinality(touched) < MaxTouches
  /\ ~HasSuffixHtmlGz(n)
  /\ tree[d][n] # 0
  /\ tree[d][n] # t
  /\ tree' = [tree EXCEPT ![d][n] = t]
  /\ touched' = touched \cup {<<d, n>>}
  /\ UNCHANGED <<staticVars, passVars, poolVars, runs, errlog,
                 emitted, dropped, indexed, listed, writes, tree0, clean>>

\* --------------------------------------------------- renderAll: scan ----
\* renderAll is called.
StartRun ==
  /\ ppc = "idle"
  /\ runs < MaxRuns
  /\ ppc' = "scan"
  /\ runs' = runs + 1
  /\ tree0' = tree
  /\ UNCHANGED <<now, tree, staticVars, contents, binsBySuite, todo, cur, idx,
                 indexNeedsUpdate, manpageByName, job, chanClosed, ret,
                 poolVars, errlog, emitted, dropped, indexed, listed, writes,
                 touched, clean>>

\* Lines 85-112 list the root, every known suite directory and every package
\* directory below it without error; lines 122-137 start the workers.
ScanOk ==
  /\ ppc = "scan"
  /\ contents' = [d \in ScannedDirs |-> ReadDir(tree, d)]
  /\ binsBySuite' = [s \in SuiteDirs \cap gvSuites |-> {Base(d) : d \in BinsOf(s)}]
  /\ todo' = ScannedDirs
  /\ wpc' = [w \in Workers |-> "recv"]
  /\ wjob' = [w \in Workers |-> NoJob]
  /\ egErr' = Nil
  /\ ctxDone' = FALSE
  /\ chanClosed' = FALSE
  /\ ppc' = "dirs"
  /\ UNCHANGED <<now, tree, staticVars, cur, idx, indexNeedsUpdate,
                 manpageByName, job, ret, histVars>>

\* The paths renderAll lists.
ListedPaths ==
  {<<>>} \cup {<<s>> : s \in SuiteDirs \cap gvSuites} \cup ScannedDirs

\* Mutant: the directories are listed lazily, while the dispatch loop runs.
ScanErrLate(path) ==
  /\ ppc \in {"scan", "dirs"}
  /\ ret' = Err("ReadDir", path)
  /\ errlog' = Append(errlog, Err("ReadDir", path))
  /\ ppc' = "returned"
  /\ UNCHANGED <<now, tree, staticVars, contents, binsBySuite, todo,
                 cur, idx, indexNeedsUpdate, manpageByName, job, chanClosed,
                 poolVars, runs, emitted, dropped, indexed, listed, writes,
                 tree0, touched, clean>>

\* One of the ioutil.ReadDir calls of lines 85, 98, 106 fails: return err.
ScanErr(path) ==
  /\ ppc = "scan"
  /\ ret' = Err("ReadDir", path)
  /\ errlog' = Append(errlog, Err("ReadDir", path))
  /\ ppc' = "returned"
  /\ UNCHANGED <<now, tree, staticVars, contents, binsBySuite, todo,
                 cur, idx, indexNeedsUpdate, manpageByName, job, chanClosed,
                 poolVars, runs, emitted, dropped, indexed, listed, writes,
                 tree0, touched, clean>>


\* ------------------------------------------- renderAll: the dispatch loop ----
\* for dir, files := range contents (Go ranges over a map in any order);
\* lines 152-167 for a directory the whitelist lets through.
NextDir(d) ==
  /\ ppc = "dirs"
  /\ d \in todo
  /\ todo' = todo \ {d}
  /\ IF WhitelistSkips(d)
     THEN UNCHANGED <<ppc, cur, idx, indexNeedsUpdate, manpageByName>>
     ELSE /\ ppc' = "entry"
          /\ cur' = d
          /\ idx' = 1
          /\ indexNeedsUpdate' = FALSE
          /\ manpageByName' = {}
  /\ UNCHANGED <<now, tree, staticVars, contents, binsBySuite, job,
                 chanClosed, ret, poolVars, histVars>>

\* One iteration of for _, f := range files, up to the select (lines 169-205).
Entry ==
  /\ ppc = "entry"
  /\ idx <= Len(contents[cur])
  /\ LET files == contents[cur]
         f == files[idx]
     IN  IF NotSource(f) \/ IsSymlink(f)
         THEN /\ idx' = idx + 1
              /\ UNCHANGED <<ppc, indexNeedsUpdate, manpageByName, job>>
         ELSE /\ indexNeedsUpdate' = (indexNeedsUpdate \/ MarksIndex(cur, f, files))
              /\ IF ParseFails(cur, f)
                 THEN /\ idx' = idx + 1
                      /\ UNCHANGED <<ppc, manpageByName, job>>
                 ELSE /\ manpageByName' = manpageByName \cup {f.name}
                      /\ IF NeedsRender(files, f)
                         THEN /\ job' = MakeJob(cur, f)
                              /\ ppc' = "select"
                              /\ idx' = idx
                         ELSE /\ idx' = idx + 1
                              /\ UNCHANGED <<ppc, job>>
  /\ UNCHANGED <<now, tree, staticVars, contents, binsBySuite, todo,
                 cur, chanClosed, ret, poolVars, histVars>>

\* Mutant: the channel is buffered; a worker that is still rendering is given
\* the next job.
HandoffBuffered(w) ==
  /\ ppc = "select"
  /\ wpc[w] \in {"recv", "render"}
  /\ wpc' = [wpc EXCEPT ![w] = "render"]
  /\ wjob' = [wjob EXCEPT ![w] = job]
  /\ emitted' = emitted \cup {job}
  /\ job' = NoJob
  /\ idx' = idx + 1
  /\ ppc' = "entry"
  /\ UNCHANGED <<now, tree, staticVars, contents, binsBySuite, todo,
                 cur, indexNeedsUpdate, manpageByName, chanClosed, ret, egErr,
                 ctxDone, runs, errlog, dropped, indexed, listed, writes,
                 tree0, touched, clean>>

\* Mutant: the send does not consume the job; it is offered again.
HandoffKeepsOffer(w) ==
  /\ ppc = "select"
  /\ wpc[w] = "recv"
  /\ wpc' = [wpc EXCEPT ![w] = "render"]
  /\ wjob' = [wjob EXCEPT ![w] = job]
  /\ emitted' = emitted \cup {job}
  /\ UNCHANGED <<now, tree, staticVars, contents, binsBySuite, todo,
                 cur, idx, ppc, job, indexNeedsUpdate, manpageByName,
                 chanClosed, ret, egErr, ctxDone, runs, errlog, dropped,
                 indexed, listed, writes, tree0, touched, clean>>

\* case renderChan <- renderJob{...}: worker w, blocked in the receive of its
\* range loop, takes the job and calls rendermanpage.
Handoff(w) ==
  /\ ppc = "select"
  /\ wpc[w] = "recv"
  /\ wpc' = [wpc EXCEPT ![w] = "render"]
  /\ wjob' = [wjob EXCEPT ![w] = job]
  /\ emitted' = emitted \cup {job}
  /\ job' = NoJob
  /\ idx' = idx + 1
  /\ ppc' = "entry"
  /\ UNCHANGED <<now, tree, staticVars, contents, binsBySuite, todo,
                 cur, indexNeedsUpdate, manpageByName, chanClosed, ret, egErr,
                 ctxDone, runs, errlog, dropped, indexed, listed, writes,
                 tree0, touched, clean>>

\* Mutant: the break leaves the loop over files.
DropJobLeavesLoop ==
  /\ ppc = "select"
  /\ ctxDone
  /\ dropped' = dropped \cup {job}
  /\ job' = NoJob
  /\ idx' = Len(contents[cur]) + 1
  /\ ppc' = "entry"
  /\ UNCHANGED <<now, tree, staticVars, contents, binsBySuite, todo,
                 cur, indexNeedsUpdate, manpageByName, chanClosed, ret,
                 poolVars, runs, errlog, emitted, indexed, listed, writes,
                 tree0, touched, clean>>

\* Mutant: the select has no ctx.Done() case.
DropJobNever ==
  /\ FALSE
  /\ UNCHANGED vars

\* case <-ctx.Done(): break -- the break leaves the select, not the loop.
DropJob ==
  /\ ppc = "select"
  /\ ctxDone
  /\ dropped' = dropped \cup {job}
  /\ job' = NoJob
  /\ idx' = idx + 1
  /\ ppc' = "entry"
  /\ UNCHANGED <<now, tree, staticVars, contents, binsBySuite, todo,
                 cur, indexNeedsUpdate, manpageByName, chanClosed, ret,
                 poolVars, runs, errlog, emitted, indexed, listed, writes,
                 tree0, touched, clean>>

\* if !indexNeedsUpdate { continue }
EndDir ==
  /\ ppc = "entry"
  /\ idx > Len(contents[cur])
  /\ ~indexNeedsUpdate
  /\ ppc' = "dirs"
  /\ UNCHANGED <<now, tree, staticVars, contents, binsBySuite, todo,
                 cur, idx, indexNeedsUpdate, manpageByName, job, chanClosed,
                 ret, poolVars, histVars>>

\* renderPkgindex(dir/index.html.gz, manpageByName) returns nil: the index
\* was written through writeAtomically, at time t.
PkgindexOk(t) ==
  /\ ppc = "entry"
  /\ t \in Later
  /\ now' = t
  /\ idx > Len(contents[cur])
  /\ indexNeedsUpdate
  /\ tree' = RenderPkgindex(tree, cur, t)
  /\ indexed' = indexed \cup {cur}
  /\ writes' = writes \cup {cur \o <<INDEX>>}
  /\ ppc' = "dirs"
  /\ UNCHANGED <<staticVars, contents, binsBySuite, todo, cur,
                 idx, indexNeedsUpdate, manpageByName, job, chanClosed, ret,
                 poolVars, runs, errlog, emitted, dropped, listed, tree0,
                 touched, clean>>

\* renderPkgindex returns an error: return err (line 225).
PkgindexErr ==
  /\ ppc = "entry"
  /\ idx > Len(contents[cur])
  /\ indexNeedsUpdate
  /\ indexed' = indexed \cup {cur}
  /\ errlog' = Append(errlog, Err("renderPkgindex", cur))
  /\ ret' = Err("renderPkgindex", cur)
  /\ ppc' = "returned"
  /\ UNCHANGED <<now, tree, staticVars, contents, binsBySuite, todo,
                 cur, idx, indexNeedsUpdate, manpageByName, job, chanClosed,
                 poolVars, runs, emitted, dropped, listed, writes, tree0,
                 touched, clean>>

\* close(renderChan), once the range over contents is exhausted.
CloseChan ==
  /\ ppc = "dirs"
  /\ todo = {}
  /\ chanClosed' = TRUE
  /\ ppc' = "wait"
  /\ UNCHANGED <<now, tree, staticVars, contents, binsBySuite, todo,
                 cur, idx, indexNeedsUpdate, manpageByName, job, ret,
                 poolVars, histVars>>

\* Mutant: eg.Wait() does not wait for the workers.
WaitNoJoin ==
  /\ ppc = "wait"
  /\ ctxDone' = TRUE
  /\ IF egErr # Nil
     THEN /\ ret' = egErr
          /\ ppc' = "returned"
     ELSE /\ ppc' = "contents"
          /\ UNCHANGED ret
  /\ UNCHANGED <<now, tree, staticVars, contents, binsBySuite, todo,
                 cur, idx, indexNeedsUpdate, manpageByName, job, chanClosed,
                 wpc, wjob, egErr, histVars>>

\* Mutant: the error eg.Wait() returns is not looked at.
WaitIgnoresError ==
  /\ ppc = "wait"
  /\ \A w \in Workers : wpc[w] = "done"
  /\ ctxDone' = TRUE
  /\ ppc' = "contents"
  /\ UNCHANGED <<now, tree, staticVars, contents, binsBySuite, todo,
                 cur, idx, indexNeedsUpdate, manpageByName, job, chanClosed,
                 ret, wpc, wjob, egErr, histVars>>

\* eg.Wait(): every goroutine of the group has returned; Wait cancels ctx and
\* hands back the group's error.
Wait ==
  /\ ppc = "wait"
  /\ \A w \in Workers : wpc[w] = "done"
  /\ ctxDone' = TRUE
  /\ IF egErr # Nil
     THEN /\ ret' = egErr
          /\ ppc' = "returned"
     ELSE /\ ppc' = "contents"
          /\ UNCHANGED ret
  /\ UNCHANGED <<now, tree, staticVars, contents, binsBySuite, todo,
                 cur, idx, indexNeedsUpdate, manpageByName, job, chanClosed,
                 wpc, wjob, egErr, histVars>>

\* renderContents(contents-<suite>.html.gz, suite, bins) returns nil.
ContentsOk(s) ==
  /\ ppc = "contents"
  /\ s \in DOMAIN binsBySuite \ listed
  /\ listed' = listed \cup {s}
  /\ writes' = writes \cup {RenderContents(s)}
  /\ UNCHANGED <<now, tree, staticVars, passVars, poolVars, runs, errlog,
                 emitted, dropped, indexed, tree0, touched, clean>>

\* renderContents returns an error: return err (line 235).
ContentsErr(s) ==
  /\ ppc = "contents"
  /\ s \in DOMAIN binsBySuite \ listed
  /\ listed' = listed \cup {s}
  /\ errlog' = Append(errlog, Err("renderContents", <<s>>))
  /\ ret' = Err("renderContents", <<s>>)
  /\ ppc' = "returned"
  /\ UNCHANGED <<now, tree, staticVars, contents, binsBySuite, todo,
                 cur, idx, indexNeedsUpdate, manpageByName, job, chanClosed,
                 poolVars, runs, emitted, dropped, indexed, writes, tree0,
                 touched, clean>>

\* return nil (line 239).
ReturnNil ==
  /\ ppc = "contents"
  /\ DOMAIN binsBySuite \subseteq listed
  /\ ret' = Nil
  /\ ppc' = "returned"
  /\ UNCHANGED <<now, tree, staticVars, contents, binsBySuite, todo,
                 cur, idx, indexNeedsUpdate, manpageByName, job, chanClosed,
                 poolVars, histVars>>

\* A pass that returned nil is over and its locals are gone; the next one may
\* be started.
Idle ==
  /\ ppc = "returned"
  /\ ret = Nil
  /\ ppc' = "idle"
  /\ contents' = <<>>
  /\ binsBySuite' = <<>>
  /\ cur' = <<>>
  /\ idx' = 0
  /\ indexNeedsUpdate' = FALSE
  /\ manpageByName' = {}
  /\ chanClosed' = FALSE
  /\ wpc' = [w \in Workers |-> "none"]
  /\ egErr' = Nil
  /\ ctxDone' = FALSE
  /\ ret' = Running
  /\ errlog' = <<>>
  /\ emitted' = {}
  /\ dropped' = {}
  /\ indexed' = {}
  /\ listed' = {}
  /\ writes' = {}
  /\ tree0' = tree
  /\ touched' = {}
  /\ clean' = UpToDate(tree)
  /\ UNCHANGED <<now, tree, staticVars, todo, job, wjob, runs>>

\* ------------------------------------------------- the worker goroutines ----
\* for r := range renderChan ends: the channel is closed; return nil.
WorkerExit(w) ==
  /\ wpc[w] = "recv"
  /\ chanClosed
  /\ wpc' = [wpc EXCEPT ![w] = "done"]
  /\ UNCHANGED <<now, tree, staticVars, passVars, wjob, egErr,
                 ctxDone, histVars>>

\* rendermanpage(r.dest, r.src, ...) returns nil: the page (or an error page)
\* was written to r.dest through writeAtomically, at time t.
RenderOk(w, t) ==
  /\ wpc[w] = "render"
  /\ t \in Later
  /\ now' = t
  /\ tree' = Rendermanpage(tree, wjob[w], t)
  /\ writes' = writes \cup {wjob[w].dir \o <<wjob[w].dest>>}
  /\ wpc' = [wpc EXCEPT ![w] = "recv"]
  /\ wjob' = [wjob EXCEPT ![w] = NoJob]
  /\ UNCHANGED <<staticVars, passVars, egErr, ctxDone, runs,
                 errlog, emitted, dropped, indexed, listed, tree0, touched,
                 clean>>

\* rendermanpage returns an error; r.dest is as it was.  The worker is about
\* to return that error to the group.
RenderErr(w) ==
  /\ wpc[w] = "render"
  /\ errlog' = Append(errlog, Err("rendermanpage", wjob[w].dir \o <<wjob[w].dest>>))
  /\ wpc' = [wpc EXCEPT ![w] = "failed"]
  /\ UNCHANGED <<now, tree, staticVars, passVars, wjob, egErr,
                 ctxDone, runs, emitted, dropped, indexed, listed, writes,
                 tree0, touched, clean>>

\* Mutant: the group cancels ctx but does not keep the error.
GroupErrorCancelOnly(w) ==
  /\ wpc[w] = "failed"
  /\ ctxDone' = TRUE
  /\ wpc' = [wpc EXCEPT ![w] = "done"]
  /\ wjob' = [wjob EXCEPT ![w] = NoJob]
  /\ UNCHANGED <<now, tree, staticVars, passVars, egErr, histVars>>

\* errgroup: errOnce.Do(func() { g.err = err; g.cancel() }) for the error the
\* worker returned.
GroupError(w) ==
  /\ wpc[w] = "failed"
  /\ egErr' = IF egErr = Nil
              THEN Err("rendermanpage", wjob[w].dir \o <<wjob[w].dest>>)
              ELSE egErr
  /\ ctxDone' = TRUE
  /\ wpc' = [wpc EXCEPT ![w] = "done"]
  /\ wjob' = [wjob EXCEPT ![w] = NoJob]
  /\ UNCHANGED <<now, tree, staticVars, passVars, histVars>>

\* ------------------------------------------------------ specification ----
Next ==
  \/ \E d \in PkgDirs : \E n \in NamesOf(d) : \E t \in 1..MaxTime : Touch(d, n, t)
  \/ StartRun
  \/ ScanOk
  \/ \E p \in ListedPaths : ScanErr(p)
  \/ \E d \in PkgDirs : NextDir(d)
  \/ Entry
  \/ \E w \in Workers : Handoff(w)
  \/ DropJob
  \/ EndDir
  \/ \E t \in 1..MaxTime : PkgindexOk(t)
  \/ PkgindexErr
  \/ CloseChan
  \/ Wait
  \/ \E s \in SuiteDirs : ContentsOk(s)
  \/ \E s \in SuiteDirs : ContentsErr(s)
  \/ ReturnNil
  \/ Idle
  \/ \E w \in Workers : WorkerExit(w)
  \/ \E w \in Workers : \E t \in 1..MaxTime : RenderOk(w, t)
  \/ \E w \in Workers : RenderErr(w)
  \/ \E w \in Workers : GroupError(w)

Spec == Init /\ [][Next]_vars

\* ------------------------------------------------- one pass, scheduled ----
\* The goroutine that runs renderAll.
Producer ==
  \/ StartRun
  \/ ScanOk
  \/ \E p \in ListedPaths : ScanErr(p)
  \/ \E d \in PkgDirs : NextDir(d)
  \/ Entry
  \/ \E w \in Workers : Handoff(w)
  \/ DropJob
  \/ EndDir
  \/ \E t \in 1..MaxTime : PkgindexOk(t)
  \/ PkgindexErr
  \/ CloseChan
  \/ Wait
  \/ \E s \in SuiteDirs : ContentsOk(s)
  \/ \E s \in SuiteDirs : ContentsErr(s)
  \/ ReturnNil

\* One worker goroutine.
Worker(w) ==
  \/ WorkerExit(w)
  \/ \E t \in 1..MaxTime : RenderOk(w, t)
  \/ RenderErr(w)
  \/ GroupError(w)

NextLive == Producer \/ \E w \in Workers : Worker(w)

\* One call of renderAll under the Go scheduler: a goroutine that can take a
\* step eventually takes one, and every renderer call returns.
SpecLive ==
  /\ Init
  /\ [][NextLive]_vars
  /\ WF_vars(Producer)
  /\ \A w \in Workers : WF_vars(Worker(w))

\* ------------------------------------------------------ writeAtomically ----
\* One call writeAtomically(dest, write), statement by statement.  wa.dest is
\* the file at dest, wa.tmp the temporary file, wa.done the steps that have
\* succeeded, wa.dest0 the file at dest when the call was made.
Absent == [data |-> "none", mtime |-> 0]

WaSteps == <<"TempFile", "write", "gzipClose", "Flush", "Chmod", "Close", "Rename">>

WaStart(d) ==
  [pc |-> "TempFile", dest |-> d, dest0 |-> d, tmp |-> Absent, open |-> FALSE,
   mode |-> "none", done |-> {}, err |-> "nil"]

\* return err: the deferred gzipw.Close() and f.Close() run; the temporary
\* file stays on disk (no os.Remove).
WaReturn(step) ==
  wa' = [wa EXCEPT !.pc = "returned", !.err = step, !.open = FALSE]

WaAdvance(step, nextpc) ==
  wa' = [wa EXCEPT !.pc = nextpc, !.done = @ \cup {step}]

mainVars == <<tree, symlinks, unparsable, onlyRender, passVars, poolVars,
              histVars>>

\* f, err := ioutil.TempFile(filepath.Dir(dest), "debiman-"): a new file,
\* under a name no existing file has, mode 0600.  Lines 48-57 wrap it in a
\* bufio.Writer and a gzip.Writer (BestCompression is a valid level).
WaTempFile(ok) ==
  /\ UNCHANGED <<now, mainVars>>
  /\ wa.pc = "TempFile"
  /\ IF ok
     THEN wa' = [wa EXCEPT !.pc = "write", !.done = @ \cup {"TempFile"},
                           !.tmp = [data |-> "empty", mtime |-> now],
                           !.open = TRUE, !.mode = "0600"]
     ELSE wa' = [wa EXCEPT !.pc = "returned", !.err = "TempFile"]

\* Mutant: the producer's error is not returned.
WaWriteIgnoresError(ok, spilled) ==
  /\ UNCHANGED <<now, mainVars>>
  /\ wa.pc = "write"
  /\ LET t == IF spilled THEN [data |-> "partial", mtime |-> now] ELSE wa.tmp
     IN  wa' = [wa EXCEPT !.pc = "gzipClose",
                          !.done = IF ok THEN @ \cup {"write"} ELSE @,
                          !.tmp = t]

\* write(gzipw): the producer streams into the compressor; whatever overflows
\* the 4096-byte buffer already reaches the temporary file.
WaWrite(ok, spilled) ==
  /\ UNCHANGED <<now, mainVars>>
  /\ wa.pc = "write"
  /\ LET t == IF spilled THEN [data |-> "partial", mtime |-> now] ELSE wa.tmp
     IN  IF ok
         THEN wa' = [wa EXCEPT !.pc = "gzipClose", !.done = @ \cup {"write"}, !.tmp = t]
         ELSE wa' = [wa EXCEPT !.pc = "returned", !.err = "write", !.tmp = t,
                               !.open = FALSE]

\* gzipw.Close()
WaGzipClose(ok) ==
  /\ UNCHANGED <<now, mainVars>>
  /\ wa.pc = "gzipClose"
  /\ IF ok THEN WaAdvance("gzipClose", "Flush") ELSE WaReturn("gzipClose")

\* bufw.Flush(): the rest of the compressed stream reaches the file.
WaFlush(ok) ==
  /\ UNCHANGED <<now, mainVars>>
  /\ wa.pc = "Flush"
  /\ IF ok
     THEN wa' = [wa EXCEPT !.pc = "Chmod", !.done = @ \cup {"Flush"},
                           !.tmp = [data |-> "full", mtime |-> now]]
     ELSE WaReturn("Flush")

\* f.Chmod(0644)
WaChmod(ok) ==
  /\ UNCHANGED <<now, mainVars>>
  /\ wa.pc = "Chmod"
  /\ IF ok
     THEN wa' = [wa EXCEPT !.pc = "Close", !.done = @ \cup {"Chmod"}, !.mode = "0644"]
     ELSE WaReturn("Chmod")

\* f.Close()
WaClose(ok) ==
  /\ UNCHANGED <<now, mainVars>>
  /\ wa.pc = "Close"
  /\ IF ok
     THEN wa' = [wa EXCEPT !.pc = "Rename", !.done = @ \cup {"Close"}, !.open = FALSE]
     ELSE WaReturn("Close")

\* return os.Rename(f.Name(), dest): the temporary file replaces dest in one
\* step, keeping its own modification time, or nothing changes.
WaRename(ok) ==
  /\ UNCHANGED <<now, mainVars>>
  /\ wa.pc = "Rename"
  /\ IF ok
     THEN wa' = [wa EXCEPT !.pc = "returned", !.done = @ \cup {"Rename"},
                           !.dest = wa.tmp, !.tmp = Absent]
     ELSE WaReturn("Rename")

WaNext ==
  \/ \E ok \in BOOLEAN : WaTempFile(ok)
  \/ \E ok \in BOOLEAN, spilled \in BOOLEAN : WaWrite(ok, spilled)
  \/ \E ok \in BOOLEAN : WaGzipClose(ok)
  \/ \E ok \in BOOLEAN : WaFlush(ok)
  \/ \E ok \in BOOLEAN : WaChmod(ok)
  \/ \E ok \in BOOLEAN : WaClose(ok)
  \/ \E ok \in BOOLEAN : WaRename(ok)
  \/ Tick

\* writeAtomically is called on a destination that is absent or holds an
\* earlier output.
WaInit ==
  /\ now \in 1..MaxTime
  /\ \E d \in {Absent} \cup {[data |-> "old", mtime |-> t] : t \in 1..now} :
       wa = WaStart(d)
  /\ tree = InitTree("fresh")
  /\ symlinks = {}
  /\ unparsable = {}
  /\ onlyRender = <<>>
  /\ ppc = "idle"
  /\ contents = <<>>
  /\ binsBySuite = <<>>
  /\ todo = {}
  /\ cur = <<>>
  /\ idx = 0
  /\ indexNeedsUpdate = FALSE
  /\ manpageByName = {}
  /\ job = NoJob
  /\ chanClosed = FALSE
  /\ wpc = [w \in Workers |-> "none"]
  /\ wjob = [w \in Workers |-> NoJob]
  /\ egErr = Nil
  /\ ctxDone = FALSE
  /\ ret = Running
  /\ runs = 0
  /\ errlog = <<>>
  /\ emitted = {}
  /\ dropped = {}
  /\ indexed = {}
  /\ listed = {}
  /\ writes = {}
  /\ tree0 = tree
  /\ touched = {}
  /\ clean = UpToDate(tree)

SpecWrite == WaInit /\ [][WaNext]_vars

\* ================================================================ claims ====
\* renderAll has returned nil from the pass.
Succeeded == ppc = "returned" /\ ret = Nil

\* A pass is under way or has just returned.
InPass == ppc \notin {"idle"}

\* The job of source n of directory d.
JobOf(d, n) == [dir |-> d, src |-> n, dest |-> HtmlName(n)]

\* The directories the pass ranges over without the whitelist skipping them.
ProcessedDirs == {d \in ScannedDirs : ~WhitelistSkips(d)}

\* The rendered page of n in d exists in t and is not older than n.
PageFresh(t, d, n) ==
  t[d][HtmlName(n)] # 0 /\ t[d][HtmlName(n)] >= t[d][n]

C2_NoDispatchAfterError ==
  [][(\E i \in DOMAIN errlog : errlog[i].op = "rendermanpage")
       => emitted' \subseteq emitted]_vars

\* ---- C3 ----
\* C3: when renderAll returns an error, it is the first error raised in the
\* pass.
C3_FirstError ==
  (ppc = "returned" /\ ret # Nil) => ret = errlog[1]

\* ---- C4 ----
WaBeforeRename == {"TempFile", "write", "gzipClose", "Flush", "Chmod", "Close"}

\* C4: the file at dest changes only in the rename step; the rename is
\* reached only after the producer, the compressor close, the flush, the chmod
\* and the file close have succeeded; and a call that returns an error leaves
\* the file at dest as it was when the call was made.
C4_DestOnlyByRename ==
  /\ [](wa.pc = "Rename" => WaBeforeRename \subseteq wa.done)
  /\ []((wa.pc = "returned" /\ wa.err # "nil") => wa.dest = wa.dest0)
  /\ [][wa'.dest # wa.dest =>
          /\ wa.pc = "Rename"
          /\ wa'.err = "nil"
          /\ WaBeforeRename \subseteq wa.done]_vars

\* A call failed after part of the output had reached the temporary file, and
\* the earlier output at dest is still there with its modification time.
C4_Witness ==
  /\ wa.pc = "returned"
  /\ wa.err \in {"write", "Rename"}
  /\ wa.tmp.data \in {"partial", "full"}
  /\ wa.dest0 # Absent
  /\ wa.dest = wa.dest0
  /\ now > wa.dest0.mtime

JobsOfDir(d) ==
  {MakeJob(d, contents[d][i]) : i \in
     {i \in DOMAIN contents[d] :
        /\ ~NotSource(contents[d][i])
        /\ ~IsSymlink(contents[d][i])
        /\ ~ParseFails(d, contents[d][i])
        /\ NeedsRender(contents[d], contents[d][i])}}

C6_SecondRunNoJobs ==
  (runs >= 2 /\ InPass /\ touched = {}) => (emitted = {} /\ job = NoJob)

\* The second of two passes returned nil with nothing touched in between, over
\* a tree whose pages exist.
C6_Witness ==
  /\ runs = 2
  /\ touched = {}
  /\ Succeeded
  /\ tree[P1][A_HTML] # 0
  /\ tree[P2][C_HTML] # 0
  /\ onlyRender = <<>>

\* ---- C7 ----
\* Exactly the source document n of d was touched in a tree that was up to
\* date.
OneTouched(d, n) ==
  /\ InPass
  /\ ppc # "scan"
  /\ clean
  /\ touched = {<<d, n>>}
  /\ IsSourceDoc(d, n)

\* C7 as stated: after exactly one source document of an up-to-date tree got
\* a newer modification time, the pass renders exactly that document and
\* rebuilds exactly its directory's index.
C7_ExactlyTouched ==
  \A d \in ScannedDirs : \A n \in NamesOf(d) :
    (OneTouched(d, n) /\ Succeeded) =>
      (emitted = {JobOf(d, n)} /\ indexed = {d})

\* The touched document parses, its directory passes the whitelist, and its
\* new modification time is later than its page's and than the index's.
TouchedStale(d, n) ==
  /\ OneTouched(d, n)
  /\ d \in ProcessedDirs
  /\ <<d, n>> \notin unparsable
  /\ After(tree0[d][n], tree0[d][HtmlName(n)])
  /\ After(tree0[d][n], tree0[d][INDEX])

\* C7 as amended: if the touched document parses, lies in a directory the
\* whitelist does not skip, and is now later than its rendered page and than
\* the index, then the pass offers no job but that document's and calls
\* renderPkgindex for no directory but its own; a pass that returns nil has
\* rendered exactly that document and rebuilt exactly that index.
C7_TouchedStale ==
  \A d \in ScannedDirs : \A n \in NamesOf(d) :
    TouchedStale(d, n) =>
      /\ emitted \subseteq {JobOf(d, n)}
      /\ job \in {NoJob, JobOf(d, n)}
      /\ dropped = {}
      /\ indexed \subseteq {d}
      /\ Succeeded =>
           /\ emitted = {JobOf(d, n)}
           /\ indexed = {d}
           /\ writes \cap {e \o <<x>> : e \in ScannedDirs, x \in NamesOf(P1) \cup NamesOf(P2)}
                = {d \o <<HtmlName(n)>>, d \o <<INDEX>>}

\* a.gz of p1 was touched in an up-to-date tree; the pass returned nil and
\* left the page of its sibling b.gz alone.
C7_Witness ==
  /\ TouchedStale(P1, A_GZ)
  /\ Succeeded
  /\ <<P1, B_GZ>> \notin symlinks
  /\ tree[P1][B_HTML] = tree0[P1][B_HTML]
  /\ tree[P1][A_HTML] > tree0[P1][A_HTML]

\* ---- C8 ----
\* The loop over d's files has ended and renderPkgindex, if due, was called.
DirDone(d) ==
  /\ InPass
  /\ d \in DOMAIN contents
  /\ d \notin todo
  /\ ~(cur = d /\ ppc \in {"entry", "select"})

\* C8 as stated: in a pass that returned nil, a directory's index was rebuilt
\* exactly when a source entry that is no symlink and whose serving path
\* parses was later than the index.
C8_IndexIffParsedNewer ==
  Succeeded =>
    \A d \in ScannedDirs :
      d \in indexed <=>
        \E n \in SourceDocs(tree0, d) :
          <<d, n>> \notin unparsable /\ After(tree0[d][n], tree0[d][INDEX])

\* C8 as amended: for a directory that the whitelist does not skip,
\* renderPkgindex is called exactly when some non-symlink entry ending in .gz
\* but not in .html.gz -- whether or not its serving path parses, whether or
\* not it needed rendering -- is strictly later than the index (the zero time
\* without an index); for a directory the whitelist skips it is never called.
C8_IndexIffSourceNewer ==
  \A d \in ScannedDirs :
    DirDone(d) =>
      (d \in indexed <=>
         /\ d \in ProcessedDirs
         /\ \E n \in SourceDocs(tree0, d) : After(tree0[d][n], tree0[d][INDEX]))

\* The index of p1 was rebuilt in a pass that returned nil without rendering
\* anything: the only entry later than the index does not parse.
C8_Witness ==
  /\ Succeeded
  /\ P1 \in indexed
  /\ emitted = {}
  /\ <<P1, B_GZ>> \in unparsable
  /\ After(tree0[P1][B_GZ], tree0[P1][INDEX])
  /\ ~After(tree0[P1][A_GZ], tree0[P1][INDEX])

Staggered(t) ==
  \A d \in ScannedDirs :
    /\ \A n \in SourceDocs(t, d) : After(t[d][HtmlName(n)], t[d][n])
    /\ \A n \in NamesOf(d) :
         (HasSuffixHtmlGz(n) /\ n # INDEX /\ t[d][n] # 0) => After(t[d][INDEX], t[d][n])

\* C10 as stated: a pass over such a tree writes no file at all.
C10_NoWrite ==
  (InPass /\ Staggered(tree0)) => writes = {}

\* C10 as amended: a pass over such a tree renders no document and rebuilds no
\* index; the only files it writes are the per-suite listings, and a pass that
\* returns nil has written each of them.
C10_OnlyListings ==
  (InPass /\ Staggered(tree0)) =>
    /\ emitted = {}
    /\ job = NoJob
    /\ indexed = {}
    /\ tree = tree0
    /\ writes \subseteq {RenderContents(s) : s \in gvSuites}
    /\ Succeeded => writes = {RenderContents(s) : s \in DOMAIN binsBySuite}

\* A pass over such a tree returned nil, having written the listings only.
C10_Witness ==
  /\ Succeeded
  /\ Staggered(tree0)
  /\ writes = {RenderContents("s1"), RenderContents("s2")}

\* ---- C11 ----
\* Every job the pass has created so far: offered, handed over or abandoned.
CreatedJobs == (emitted \cup dropped \cup {job}) \ {NoJob}

\* C11: no render job is ever created for an entry that is a symbolic link,
\* whatever its modification time and whether or not a page of its name exists.
C11_NoJobForSymlink ==
  \A j \in CreatedJobs : <<j.dir, j.src>> \notin symlinks

\* A pass returned nil over p1, where b.gz is a symbolic link later than the
\* page of its name (or without one); a.gz was rendered, b.gz was not.
C11_Witness ==
  /\ Succeeded
  /\ <<P1, B_GZ>> \in symlinks
  /\ tree0[P1][B_HTML] < tree0[P1][B_GZ]
  /\ tree[P1][B_HTML] = tree0[P1][B_HTML]
  /\ JobOf(P1, A_GZ) \in emitted

\* ---- C12 ----
\* The path rendermanpage writes for job j.
DestPath(j) == j.dir \o <<j.dest>>

\* The rendermanpage call for job j has returned, with nil or with an error.
Executed(j, ws, el) ==
  \/ DestPath(j) \in ws
  \/ \E i \in DOMAIN el : el[i] = Err("rendermanpage", DestPath(j))

\* C12 as stated: no job is held by two workers, and no job that was created
\* is discarded without having been handed to a worker.
C12_EveryJobConsumed ==
  /\ \A w1, w2 \in Workers :
       (wjob[w1] # NoJob /\ wjob[w1] = wjob[w2]) => w1 = w2
  /\ dropped = {}

\* C12 as amended: a job is handed to a worker at most once and to one worker
\* only, who calls rendermanpage for it once; a job offered after the group
\* was cancelled may instead be abandoned without being executed; in a pass
\* that returns nil every job created was handed over and executed.
C12_ConsumedAtMostOnce ==
  /\ [](\A w1, w2 \in Workers :
         (wjob[w1] # NoJob /\ wjob[w1] = wjob[w2]) => w1 = w2)
  /\ [](emitted \cap dropped = {})
  /\ [](dropped # {} => ctxDone)
  /\ [](Succeeded =>
         /\ dropped = {}
         /\ \A d \in ProcessedDirs :
              \A j \in JobsOfDir(d) : j \in emitted /\ DestPath(j) \in writes)
  /\ [][\A w \in Workers :
          /\ (wjob[w] = NoJob /\ wjob'[w] # NoJob) =>
                /\ wjob'[w] = job
                /\ job \notin emitted \cup dropped
                /\ emitted' = emitted \cup {job}
                /\ \A v \in Workers \ {w} : wjob'[v] = wjob[v]
          /\ (wjob[w] # NoJob /\ wjob'[w] # wjob[w]) =>
                (wjob'[w] = NoJob /\ Executed(wjob[w], writes', errlog'))]_vars

\* A pass returned after one job was executed by a worker and a later job was
\* abandoned on cancellation.
C12_Witness ==
  /\ ppc = "returned"
  /\ emitted # {}
  /\ dropped # {}
  /\ \A w \in Workers : wpc[w] = "done"

\* ---- C13 ----
\* The jobs handed to a worker whose rendermanpage call has not returned.
Executing == {j \in emitted : ~Executed(j, writes, errlog)}

\* The job the producer has built and not yet got rid of.
Offered == {job} \ {NoJob}

\* C13: at most NumWorkers rendermanpage calls are executing at any moment;
\* the producer holds at most one job no worker has taken and stays in the
\* select while it holds one, so at most NumWorkers + 1 jobs are outstanding.
C13_BoundedInFlight ==
  /\ Cardinality(Executing) <= NumWorkers
  /\ Cardinality(Executing \cup Offered) <= NumWorkers + 1
  /\ Executing \cap Offered = {}
  /\ (job # NoJob) => ppc = "select"
  /\ (ppc = "select" /\ ~ctxDone /\ Cardinality(Executing) = NumWorkers) =>
       ~ENABLED (\E w \in Workers : Handoff(w))

\* Every worker is executing a rendermanpage call and the producer is blocked
\* in the select with one more job.
C13_Witness ==
  /\ Cardinality(Executing) = NumWorkers
  /\ \A w \in Workers : wpc[w] = "render"
  /\ ppc = "select"
  /\ job # NoJob
  /\ ~ctxDone

\* ---- C14 ----
\* C14: renderAll returns nil only from a pass in which no rendermanpage,
\* renderPkgindex, renderContents or directory-listing call returned an error
\* and every worker returned nil.
C14_SuccessMeansNoError ==
  Succeeded =>
    /\ errlog = <<>>
    /\ egErr = Nil
    /\ \A w \in Workers : wpc[w] = "done"

\* A worker's rendermanpage call failed and renderAll returned that error
\* from eg.Wait().
C14_Witness ==
  /\ ppc = "returned"
  /\ chanClosed
  /\ ret # Nil
  /\ ret.op = "rendermanpage"
  /\ ret = egErr
  /\ \A w \in Workers : wpc[w] = "done"

\* ---- C15 ----
\* C15: provided every renderer call returns, a call of renderAll eventually
\* returns; in particular the producer does not stay in the select forever
\* once the workers have exited after an error.
C15_AlwaysReturns == (ppc = "scan") ~> (ppc = "returned")

\* Every worker has exited after a rendermanpage error, the producer had one
\* more job, abandoned it, and renderAll returned.
C15_Witness ==
  /\ ppc = "returned"
  /\ dropped # {}
  /\ \A w \in Workers : wpc[w] = "done"
  /\ Cardinality({i \in DOMAIN errlog : errlog[i].op = "rendermanpage"}) = NumWorkers

\* ---- C16 ----
\* C16: when listing the root, a suite directory or a package directory
\* fails, renderAll returns that error before any work has started: no worker
\* runs, no job was created, and no page, index or listing was written.
C16_ScanErrorBeforeWork ==
  (ppc = "returned" /\ ret.op = "ReadDir") =>
    /\ errlog = <<ret>>
    /\ CreatedJobs = {}
    /\ indexed = {}
    /\ listed = {}
    /\ writes = {}
    /\ tree = tree0
    /\ \A w \in Workers : wpc[w] = "none"

\* After a pass that returned nil, the next pass failed to list s1/p1.
C16_Witness ==
  /\ ppc = "returned"
  /\ ret = Err("ReadDir", P1)
  /\ runs = 2

\* ---- C17 ----
\* No job was created for an entry whose serving path does not parse, and no
\* such entry is in the name-to-metadata mapping of the current directory.
UnparsableSkipped ==
  /\ \A j \in CreatedJobs : <<j.dir, j.src>> \notin unparsable
  /\ \A n \in manpageByName : <<cur, n>> \notin unparsable

\* C17 as stated: an entry whose serving path does not parse gets no job, is
\* not entered in the mapping, and does not decide the index rebuild: an
\* index is rebuilt only when an entry that parses is later than the index.
C17_UnparsableInert ==
  /\ UnparsableSkipped
  /\ \A d \in ScannedDirs :
       (DirDone(d) /\ d \in indexed) =>
         \E n \in SourceDocs(tree0, d) :
           <<d, n>> \notin unparsable /\ After(tree0[d][n], tree0[d][INDEX])

\* C17 as amended: an entry whose serving path does not parse gets no job and
\* is not entered in the mapping, and the pass goes on; but its modification
\* time counts for the index like any other source entry's: if it is later
\* than the index, the directory's index is rebuilt.
C17_UnparsableSkippedButCounts ==
  /\ UnparsableSkipped
  /\ \A d \in ProcessedDirs :
       (/\ DirDone(d)
        /\ \E n \in SourceDocs(tree0, d) :
             <<d, n>> \in unparsable /\ After(tree0[d][n], tree0[d][INDEX]))
         => d \in indexed

\* A pass returned nil over p1, where b.gz does not parse and has no page:
\* a.gz was rendered, b.gz was not, and the index was rebuilt.
C17_Witness ==
  /\ Succeeded
  /\ <<P1, B_GZ>> \in unparsable
  /\ tree0[P1][B_HTML] = 0
  /\ tree[P1][B_HTML] = 0
  /\ JobOf(P1, A_GZ) \in emitted
  /\ P1 \in indexed

\* ---- C18 ----
\* C18: renderContents is called only after the range over the directories
\* has ended with every index rebuild it called for having succeeded, and
\* after every worker has returned nil; a pass in which a render or an index
\* rebuild failed calls renderContents for no suite.
C18_ListingsLast ==
  /\ listed # {} =>
       /\ todo = {}
       /\ chanClosed
       /\ \A w \in Workers : wpc[w] = "done"
       /\ egErr = Nil
       /\ Executing = {}
       /\ \A d \in indexed : (d \o <<INDEX>>) \in writes
  /\ (\E i \in DOMAIN errlog : errlog[i].op \in {"rendermanpage", "renderPkgindex"})
       => listed = {}

\* A pass rendered pages, rebuilt an index, joined its workers and then wrote
\* the listing of every suite.
C18_Witness ==
  /\ Succeeded
  /\ listed = gvSuites
  /\ indexed # {}
  /\ emitted # {}

\* ---- C19 ----
\* C19: whenever renderAll has returned, every worker goroutine has
\* terminated (or none was ever started): none is executing rendermanpage and
\* none is blocked in the receive from renderChan.
C19_WorkersGoneAtReturn ==
  ppc = "returned" => \A w \in Workers : wpc[w] \in {"none", "done"}

\* ---- C20 ----
\* C20: a job is abandoned in the select only after the group has recorded a
\* worker's error, and a pass in which a job was abandoned never returns nil.
C20_DroppedMeansError ==
  dropped # {} =>
    /\ egErr # Nil
    /\ ppc = "returned" => ret # Nil
    /\ listed = {}

\* A stale entry's job was abandoned after another worker's render failed;
\* renderAll closed the channel, joined the workers and returned that error.
C20_Witness ==
  /\ ppc = "returned"
  /\ chanClosed
  /\ dropped # {}
  /\ ret = egErr
  /\ ret.op = "rendermanpage"
  /\ \E j \in dropped : tree[j.dir][j.dest] = tree0[j.dir][j.dest]

====
